---- MODULE Spec2Model ----
(***************************************************************************)
(* Model of google_api.py: the credential-rotation dispatch loop.          *)
(* main() walks the key directory, and for every key file                  *)
(* process_urls_for_key() loads the URL queue file, submits the URLs one   *)
(* by one, appends to result.txt / the bad-URL log, and rewrites the       *)
(* queue file with the URLs left over.                                     *)
(*                                                                         *)
(* The files on disk are the durable state; the locals of main() and       *)
(* process_urls_for_key() are the volatile state.  One action is one       *)
(* step of the code between two points where the process can be            *)
(* interrupted or an exception can leave the function.                     *)
(***************************************************************************)
EXTENDS Integers, Sequences, FiniteSets, TLC

\* ------------------------------------------------------------------ bounds
MaxLines == 3        \* lines in the queue file at the start of a run
MaxKeys == 2         \* key files "k1.json", "k2.JSON", ... in the directory

\* ------------------------------------------------------------------ inputs
\* REQUEST_DELAY (default 1.0 s), the unit of the clock
RequestDelay == 1

\* A line of the queue file, without its newline.  "" is a blank line and
\* " u2 " is the URL u2 with surrounding white space.
Lines == {"u1", " u2 ", ""}

\* Directory entries are numbered in the order of their paths; entry 0 is a
\* file that is no key ("notes.txt"), odd entries end in ".json", even in
\* ".JSON".
DirEntries == 0..MaxKeys

Ext(p) == IF p = 0 THEN ".txt" ELSE IF p % 2 = 1 THEN ".json" ELSE ".JSON"

\* str.lower() on the extensions above
lower(e) == IF e = ".JSON" THEN ".json" ELSE e

\* The test on the extension left out: every file is taken for a key.
IsJsonFile_any(p) == TRUE

\* filename.lower().endswith(".json")
IsJsonFile(p) == lower(Ext(p)) = ".json"

\* What http.request() does for one call: it raises (transport_error), or it
\* returns a body that is no UTF-8 (bad_utf8), no JSON (bad_json), a JSON
\* object with an "error" member (error, with err.get("code") and
\* err.get("status")), or a JSON object without one (ok).  "None" is
\* Python's None.
ErrorCodes == {"429", "403"}
ErrorStatuses == {"RESOURCE_EXHAUSTED", "PERMISSION_DENIED"}

Responses ==
    [t : {"transport_error", "bad_utf8", "bad_json", "ok"}, code : {"None"}, status : {"None"}]
    \cup [t : {"error"}, code : ErrorCodes, status : ErrorStatuses]

\* ------------------------------------------------------------------ state
VARIABLES
    key_dir,          \* JSON_KEYS_DIR: [exists, files]
    urls_file,        \* URLS_FILE on disk: [exists, lines]
    result_txt,       \* lines appended to result.txt by this run: the URLs (no dates)
    bad_urls_log,     \* lines appended to BAD_URLS_LOG by this run: [url, code, status]
    DRY_RUN,          \* the DRY_RUN setting
    pc,               \* position of the process
    json_files,       \* main: the sorted key files
    key_index,        \* main: position of the for loop over json_files
    processed,        \* main: value returned by process_urls_for_key
    total_processed,  \* main
    urls,             \* process_urls_for_key: the loaded queue
    i,                \* process_urls_for_key: position of the for loop over urls
    remaining_urls,   \* process_urls_for_key
    processed_count,  \* process_urls_for_key
    quota_exhausted,  \* process_urls_for_key
    result,           \* process_urls_for_key: the dict returned by index_url
    wbuf,             \* save_urls: lines written to the file object, not yet on disk
    j,                \* save_urls: position of the for loop over urls
    err,              \* why the run ended, "none" while it runs
    response,         \* index_url: what the last http.request gave
    exit_status,      \* exit status of the process, "running" before its end
    queue0,           \* history: load_urls(URLS_FILE) at the start of the run
    log,              \* history: the submission attempts, see Attempt
    clock,            \* history: time slept so far, in units of REQUEST_DELAY / RequestDelay
    starts,           \* history: the clock at the start of every submission attempt
    requests,         \* history: number of http.request calls
    printed,          \* history: the counts printed, see KeyReport and TotalReport
    passes            \* history: the key files a pass was started with

vars == <<key_dir, urls_file, result_txt, bad_urls_log, DRY_RUN, pc, json_files,
          key_index, processed, total_processed, urls, i, remaining_urls,
          processed_count, quota_exhausted, result, wbuf, j, err, response,
          exit_status, queue0, log, clock, starts, requests, printed, passes>>

durable == <<urls_file, result_txt, bad_urls_log>>
config == <<key_dir, DRY_RUN, queue0>>
main_locals == <<json_files, key_index, processed, total_processed>>
pass_locals == <<urls, i, remaining_urls, processed_count, quota_exhausted, result, response>>
timing == <<clock, starts, requests>>
save_locals == <<wbuf, j>>

\* ------------------------------------------------------------------ helpers
\* str.strip() on the lines above
strip(line) == IF line = " u2 " THEN "u2" ELSE line

\* load_urls that takes the first line of the file for a header.
load_urls_skips_first(file) ==
    IF ~file.exists THEN <<>>
    ELSE LET stripped == [k \in 1..Len(file.lines) |-> strip(file.lines[k])]
             NonBlank(l) == l # ""
             all == SelectSeq(stripped, NonBlank)
         IN  IF all = <<>> THEN <<>> ELSE Tail(all)

\* load_urls: [line.strip() for line in f if line.strip()], [] for a missing file
load_urls(file) ==
    IF ~file.exists THEN <<>>
    ELSE LET stripped == [k \in 1..Len(file.lines) |-> strip(file.lines[k])]
             NonBlank(l) == l # ""
         IN  SelectSeq(stripped, NonBlank)

\* The dict index_url returns when it returns ("data" is never read by the caller).
Result(ok, fatal, code, status) ==
    [ok |-> ok, fatal_for_key |-> fatal, code |-> code, status |-> status]

NoResult == Result(FALSE, FALSE, "None", "None")

\* index_url raises: http.request() raised, or content.decode() did
\* (UnicodeDecodeError is no json.JSONDecodeError)
index_url_raises(dry, resp) ==
    ~dry /\ resp.t \in {"transport_error", "bad_utf8"}

index_url(dry, resp) ==
    IF dry THEN Result(TRUE, FALSE, "None", "None")
    ELSE IF resp.t = "bad_json" THEN Result(FALSE, FALSE, "None", "INVALID_JSON")
    ELSE IF resp.t = "error" THEN
        IF resp.code = "429" \/ resp.status = "RESOURCE_EXHAUSTED"
        THEN Result(FALSE, TRUE, resp.code, resp.status)
        ELSE Result(FALSE, FALSE, resp.code, resp.status)
    ELSE Result(TRUE, FALSE, "None", "None")

\* No request was made yet (or, with DRY_RUN, at all).
NoResponse == [t |-> "none", code |-> "None", status |-> "None"]

\* index_url with the DRY_RUN test after the request.
http_requests_always(dry) == 1

\* Number of http.request calls of one index_url call: the DRY_RUN branch
\* returns before the request.
http_requests(dry) == IF dry THEN 0 ELSE 1

\* time.sleep at the end of the loop body, which the continue of the ok
\* branch skips.
sleep_skipped_when_ok(r) == IF r.ok THEN 0 ELSE RequestDelay

\* time.sleep(REQUEST_DELAY) follows every index_url call that returned,
\* whatever it returned.
sleep(r) == RequestDelay

\* How the process ends: main() returned and the module ends (status 0), an
\* uncaught exception (the interpreter exits with 1), or a signal.
exit_code(how) ==
    IF how = "return" THEN "0"
    ELSE IF how = "exception" THEN "1"
    ELSE "signal"

\* The line process_urls_for_key prints at its end.
KeyReport(key, count, left) ==
    [what |-> "key", key |-> key, count |-> count, left |-> left]

\* The line main prints at its end.
TotalReport(count) ==
    [what |-> "total", key |-> 0, count |-> count, left |-> 0]

\* The outcome kinds of the specification, read off the returned dict.
Kind(r) ==
    IF r.ok THEN "Success"
    ELSE IF r.fatal_for_key THEN "CredentialExhausted"
    ELSE IF r.status = "INVALID_JSON" THEN "TransientError"
    ELSE "UrlRejected"

\* One entry of the history of submission attempts: the key, the URL, the
\* outcome kind and, for an outcome that is to go to the bad-URL log, the
\* code and status index_url returned.
Attempt(key, url, kind, r) ==
    IF kind \in {"UrlRejected", "TransientError"}
    THEN [key |-> key, url |-> url, kind |-> kind, code |-> r.code, status |-> r.status]
    ELSE [key |-> key, url |-> url, kind |-> kind, code |-> "None", status |-> "None"]

\* json_files.sort(): insertion sort on the paths
RECURSIVE insert(_, _)
insert(s, p) ==
    IF s = <<>> THEN <<p>>
    ELSE IF p <= Head(s) THEN <<p>> \o s
    ELSE <<Head(s)>> \o insert(Tail(s), p)

RECURSIVE sort(_)
sort(s) == IF s = <<>> THEN <<>> ELSE insert(sort(Tail(s)), Head(s))

\* The orders in which os.walk can yield the files of a directory.
WalkOrders(files) ==
    {w \in [1..Cardinality(files) -> files] :
        \A a, b \in 1..Cardinality(files) : a # b => w[a] # w[b]}

\* ------------------------------------------------------------------ Init
QueueFiles ==
    {[exists |-> FALSE, lines |-> <<>>]}
    \cup {[exists |-> TRUE, lines |-> l] :
            l \in UNION {[1..n -> Lines] : n \in 0..MaxLines}}

KeyDirs ==
    {[exists |-> FALSE, files |-> {}]}
    \cup {[exists |-> TRUE, files |-> f] : f \in SUBSET DirEntries}

Init ==
    /\ key_dir \in KeyDirs
    /\ urls_file \in QueueFiles
    /\ result_txt = <<>>
    /\ bad_urls_log = <<>>
    /\ DRY_RUN \in BOOLEAN
    /\ pc = "main"
    /\ json_files = <<>>
    /\ key_index = 0
    /\ processed = 0
    /\ total_processed = 0
    /\ urls = <<>>
    /\ i = 0
    /\ remaining_urls = <<>>
    /\ processed_count = 0
    /\ quota_exhausted = FALSE
    /\ result = NoResult
    /\ wbuf = <<>>
    /\ j = 0
    /\ err = "none"
    /\ response = NoResponse
    /\ exit_status = "running"
    /\ queue0 = load_urls(urls_file)
    /\ log = <<>>
    /\ clock = 0
    /\ starts = <<>>
    /\ requests = 0
    /\ printed = <<>>
    /\ passes = <<>>

\* ------------------------------------------------------------------ main
\* main, lines 220-236: the directory checks, the walk and the sort.
MainStart ==
    /\ pc = "main"
    /\ \/ /\ ~key_dir.exists
          /\ pc' = "done"
          /\ err' = "config"
          /\ exit_status' = exit_code("return")
          /\ UNCHANGED json_files
          /\ UNCHANGED key_index
       \/ /\ key_dir.exists
          /\ \E walk \in WalkOrders(key_dir.files) :
                LET found == SelectSeq(walk, IsJsonFile) IN
                IF found = <<>>
                THEN /\ pc' = "done"
                     /\ err' = "config"
                     /\ exit_status' = exit_code("return")
                     /\ UNCHANGED json_files
                     /\ UNCHANGED key_index
                ELSE /\ json_files' = sort(found)
                     /\ key_index' = 1
                     /\ pc' = "key"
                     /\ UNCHANGED <<err, exit_status>>
    /\ UNCHANGED <<durable, config, timing, printed, passes, processed, total_processed, pass_locals, save_locals, log>>

\* main with total_processed = processed in place of +=: the total is the
\* count of the last key only.
MainLoop_overwrites ==
    /\ pc = "returned"
    /\ total_processed' = processed
    /\ IF load_urls(urls_file) = <<>>
       THEN pc' = "done" /\ UNCHANGED key_index
       ELSE IF key_index < Len(json_files)
            THEN pc' = "key" /\ key_index' = key_index + 1
            ELSE pc' = "done" /\ UNCHANGED key_index
    /\ IF pc' = "done"
       THEN /\ printed' = Append(printed, TotalReport(total_processed'))
            /\ exit_status' = exit_code("return")
       ELSE UNCHANGED <<printed, exit_status>>
    /\ urls' = <<>>
    /\ i' = 0
    /\ remaining_urls' = <<>>
    /\ processed_count' = 0
    /\ quota_exhausted' = FALSE
    /\ result' = NoResult
    /\ response' = NoResponse
    /\ j' = 0
    /\ UNCHANGED <<durable, config, timing, passes, json_files, processed, wbuf, err, log>>

\* main without the test of lines 242-244: the loop goes on to the next key
\* although the queue is empty.
MainLoop_no_break ==
    /\ pc = "returned"
    /\ total_processed' = total_processed + processed
    /\ IF key_index < Len(json_files)
       THEN pc' = "key" /\ key_index' = key_index + 1
       ELSE pc' = "done" /\ UNCHANGED key_index
    /\ IF pc' = "done"
       THEN /\ printed' = Append(printed, TotalReport(total_processed'))
            /\ exit_status' = exit_code("return")
       ELSE UNCHANGED <<printed, exit_status>>
    /\ urls' = <<>>
    /\ i' = 0
    /\ remaining_urls' = <<>>
    /\ processed_count' = 0
    /\ quota_exhausted' = FALSE
    /\ result' = NoResult
    /\ response' = NoResponse
    /\ j' = 0
    /\ UNCHANGED <<durable, config, timing, passes, json_files, processed, wbuf, err, log>>

\* main, lines 240-246: after process_urls_for_key returned (its locals
\* are gone), the count is added and the queue file is read again.
MainLoop ==
    /\ pc = "returned"
    /\ total_processed' = total_processed + processed
    /\ IF load_urls(urls_file) = <<>>
       THEN pc' = "done" /\ UNCHANGED key_index
       ELSE IF key_index < Len(json_files)
            THEN pc' = "key" /\ key_index' = key_index + 1
            ELSE pc' = "done" /\ UNCHANGED key_index
    /\ IF pc' = "done"
       THEN /\ printed' = Append(printed, TotalReport(total_processed'))
            /\ exit_status' = exit_code("return")
       ELSE UNCHANGED <<printed, exit_status>>
    /\ urls' = <<>>
    /\ i' = 0
    /\ remaining_urls' = <<>>
    /\ processed_count' = 0
    /\ quota_exhausted' = FALSE
    /\ result' = NoResult
    /\ response' = NoResponse
    /\ j' = 0
    /\ UNCHANGED <<durable, config, timing, passes, json_files, processed, wbuf, err, log>>

\* ------------------------------------------------------------------ ledgers
\* write_result: one line "url;date" appended to result.txt
write_result(ledger, url) == Append(ledger, url)

\* log_bad_url without a line for an undecodable response: such a URL
\* leaves the queue without a trace.
log_bad_url_drops_invalid_json(ledger, url, r) ==
    IF r.status = "INVALID_JSON" THEN ledger
    ELSE Append(ledger, [url |-> url, code |-> r.code, status |-> r.status])

\* log_bad_url: one line "timestamp | url | code=..., status=..." appended
log_bad_url(ledger, url, r) ==
    Append(ledger, [url |-> url, code |-> r.code, status |-> r.status])

\* remaining_urls.insert(0, url) in place of append
keep_url_front(remaining, url) == <<url>> \o remaining

\* remaining_urls.append(url), lines 183 and 198
keep_url(remaining, url) == Append(remaining, url)

\* The process is gone: the locals of main, process_urls_for_key and
\* save_urls no longer exist (they get the values they have in Init).
LocalsLost ==
    /\ json_files' = <<>>
    /\ key_index' = 0
    /\ processed' = 0
    /\ total_processed' = 0
    /\ urls' = <<>>
    /\ i' = 0
    /\ remaining_urls' = <<>>
    /\ processed_count' = 0
    /\ quota_exhausted' = FALSE
    /\ result' = NoResult
    /\ response' = NoResponse
    /\ wbuf' = <<>>
    /\ j' = 0

\* An uncaught exception leaves main(): the run is over, nothing more is
\* written or printed.
Raise(cause) ==
    /\ pc' = "crashed"
    /\ err' = cause
    /\ exit_status' = exit_code("exception")
    /\ LocalsLost

\* ------------------------------------------------------------------ process_urls_for_key
\* Lines 164-179: the credentials are read from the key file (which raises
\* for a file that is no service-account key), the queue is loaded and the
\* locals are set.  An empty queue returns 0 at once.
KeyStart ==
    /\ pc = "key"
    /\ \E key_ok \in BOOLEAN :
        IF ~key_ok
        THEN Raise("credential") /\ UNCHANGED passes
        ELSE LET loaded == load_urls(urls_file) IN
             /\ passes' = Append(passes, json_files[key_index])
             /\ IF loaded = <<>>
                THEN /\ processed' = 0
                     /\ pc' = "returned"
                     /\ UNCHANGED <<err, exit_status, json_files, key_index,
                                    total_processed, pass_locals, save_locals>>
                ELSE /\ urls' = loaded
                     /\ remaining_urls' = <<>>
                     /\ processed_count' = 0
                     /\ quota_exhausted' = FALSE
                     /\ i' = 1
                     /\ pc' = "loop"
                     /\ UNCHANGED <<err, exit_status, main_locals, result, response,
                                    save_locals>>
    /\ UNCHANGED <<durable, config, timing, printed, log>>

\* Lines 181-184: the key is exhausted, the URL is kept without a submission.
LoopSkip ==
    /\ pc = "loop"
    /\ i <= Len(urls)
    /\ quota_exhausted
    /\ remaining_urls' = keep_url(remaining_urls, urls[i])
    /\ i' = i + 1
    /\ UNCHANGED <<durable, config, timing, printed, passes, main_locals, urls, processed_count, quota_exhausted,
                   result, response, save_locals, pc, err, exit_status, log>>

\* Lines 186-188: index_url(url, http), then the sleep.  With DRY_RUN there
\* is no request; otherwise the request gets one of the Responses.
Submit ==
    /\ pc = "loop"
    /\ i <= Len(urls)
    /\ ~quota_exhausted
    /\ \E resp \in Responses :
        IF index_url_raises(DRY_RUN, resp)
        THEN /\ Raise(resp.t)
             /\ log' = Append(log, Attempt(json_files[key_index], urls[i], "Raised", NoResult))
             /\ UNCHANGED clock
        ELSE /\ result' = index_url(DRY_RUN, resp)
             /\ response' = IF DRY_RUN THEN response ELSE resp
             /\ clock' = clock + sleep(result')
             /\ log' = Append(log, Attempt(json_files[key_index], urls[i],
                                           Kind(result'), result'))
             /\ pc' = "handle"
             /\ UNCHANGED <<err, exit_status, main_locals, urls, i, remaining_urls, processed_count,
                            quota_exhausted, save_locals>>
    /\ starts' = Append(starts, clock)
    /\ requests' = requests + http_requests(DRY_RUN)
    /\ UNCHANGED <<durable, config, printed, passes>>

\* Lines 190-193: result["ok"].  open() or write() of result.txt can raise.
\* (In all three branches on result: the dict and the response are not read
\* again before the next call of index_url assigns them, they are dropped.)
HandleOk ==
    /\ pc = "handle"
    /\ result.ok
    /\ \E io_ok \in BOOLEAN :
        IF io_ok
        THEN /\ result_txt' = write_result(result_txt, urls[i])
             /\ processed_count' = processed_count + 1
             /\ i' = i + 1
             /\ pc' = "loop"
             /\ result' = NoResult
             /\ response' = NoResponse
             /\ UNCHANGED <<err, exit_status, main_locals, urls, remaining_urls, quota_exhausted,
                            save_locals>>
        ELSE /\ Raise("persist")
             /\ UNCHANGED result_txt
    /\ UNCHANGED <<urls_file, bad_urls_log, config, timing, printed, passes, log>>

\* Lines 195-199 without remaining_urls.append(url): the URL that met the
\* exhausted key is not kept.
HandleFatal_forgets_url ==
    /\ pc = "handle"
    /\ ~result.ok
    /\ result.fatal_for_key
    /\ quota_exhausted' = TRUE
    /\ i' = i + 1
    /\ pc' = "loop"
    /\ result' = NoResult
    /\ response' = NoResponse
    /\ UNCHANGED <<durable, config, timing, printed, passes, main_locals, urls, remaining_urls, processed_count,
                   save_locals, err, exit_status, log>>

\* Lines 195-199: result["fatal_for_key"].
HandleFatal ==
    /\ pc = "handle"
    /\ ~result.ok
    /\ result.fatal_for_key
    /\ quota_exhausted' = TRUE
    /\ remaining_urls' = keep_url(remaining_urls, urls[i])
    /\ i' = i + 1
    /\ pc' = "loop"
    /\ result' = NoResult
    /\ response' = NoResponse
    /\ UNCHANGED <<durable, config, timing, printed, passes, main_locals, urls,
                   processed_count, save_locals, err, exit_status, log>>

\* Lines 201-204 with the URL put back in the queue as well.
HandleBad_requeues ==
    /\ pc = "handle"
    /\ ~result.ok
    /\ ~result.fatal_for_key
    /\ \E io_ok \in BOOLEAN :
        IF io_ok
        THEN /\ bad_urls_log' = log_bad_url(bad_urls_log, urls[i], result)
             /\ remaining_urls' = keep_url(remaining_urls, urls[i])
             /\ i' = i + 1
             /\ pc' = "loop"
             /\ result' = NoResult
             /\ response' = NoResponse
             /\ UNCHANGED <<err, exit_status, main_locals, urls, processed_count,
                            quota_exhausted, save_locals>>
        ELSE /\ Raise("persist")
             /\ UNCHANGED bad_urls_log
    /\ UNCHANGED <<urls_file, result_txt, config, timing, printed, passes, log>>

\* Lines 201-204: every other result goes to the bad-URL log and is not
\* put back in the queue.  open() or write() of the log can raise.
HandleBad ==
    /\ pc = "handle"
    /\ ~result.ok
    /\ ~result.fatal_for_key
    /\ \E io_ok \in BOOLEAN :
        IF io_ok
        THEN /\ bad_urls_log' = log_bad_url(bad_urls_log, urls[i], result)
             /\ i' = i + 1
             /\ pc' = "loop"
             /\ result' = NoResult
             /\ response' = NoResponse
             /\ UNCHANGED <<err, exit_status, main_locals, urls, remaining_urls, processed_count,
                            quota_exhausted, save_locals>>
        ELSE /\ Raise("persist")
             /\ UNCHANGED bad_urls_log
    /\ UNCHANGED <<urls_file, result_txt, config, timing, printed, passes, log>>

\* ------------------------------------------------------------------ save_urls
\* Line 150: open(path, "w") creates or truncates the file at once.
SaveOpen ==
    /\ pc = "loop"
    /\ i > Len(urls)
    /\ \E io_ok \in BOOLEAN :
        IF io_ok
        THEN /\ urls_file' = [exists |-> TRUE, lines |-> <<>>]
             /\ wbuf' = <<>>
             /\ j' = 1
             /\ pc' = "save"
             /\ UNCHANGED <<err, exit_status, main_locals, pass_locals>>
        ELSE /\ Raise("persist")
             /\ UNCHANGED urls_file
    /\ UNCHANGED <<result_txt, bad_urls_log, config, timing, printed, passes, log>>

\* Lines 151-152: f.write(url + "\n") goes to the buffer of the file object,
\* which reaches the disk when the buffer is full (flush) or at close.  A
\* flush that fails raises.
SaveWrite ==
    /\ pc = "save"
    /\ j <= Len(remaining_urls)
    /\ \E flush, io_ok \in BOOLEAN :
        IF flush /\ ~io_ok
        THEN /\ Raise("persist")
             /\ UNCHANGED urls_file
        ELSE /\ IF flush
                THEN /\ urls_file' = [urls_file EXCEPT
                                        !.lines = @ \o Append(wbuf, remaining_urls[j])]
                     /\ wbuf' = <<>>
                ELSE /\ wbuf' = Append(wbuf, remaining_urls[j])
                     /\ UNCHANGED urls_file
             /\ j' = j + 1
             /\ UNCHANGED <<main_locals, pass_locals, pc, err, exit_status>>
    /\ UNCHANGED <<result_txt, bad_urls_log, config, timing, printed, passes, log>>

\* save_urls in a try/finally that prints the counts of the pass although
\* the file could not be written.
SaveClose_reports_failure ==
    /\ pc = "save"
    /\ j > Len(remaining_urls)
    /\ \E io_ok \in BOOLEAN :
        IF io_ok
        THEN /\ urls_file' = [urls_file EXCEPT !.lines = @ \o wbuf]
             /\ wbuf' = <<>>
             /\ processed' = processed_count
             /\ printed' = Append(printed, KeyReport(json_files[key_index],
                                                     processed_count, Len(remaining_urls)))
             /\ pc' = "returned"
             /\ UNCHANGED <<json_files, key_index, total_processed, pass_locals, j, err,
                            exit_status>>
        ELSE /\ Raise("persist")
             /\ printed' = Append(printed, KeyReport(json_files[key_index],
                                                     processed_count, Len(remaining_urls)))
             /\ UNCHANGED urls_file
    /\ UNCHANGED <<result_txt, bad_urls_log, config, timing, passes, log>>

\* The end of the with block closes the file, which writes the buffer out
\* and raises when that fails; lines 208-212 print the counts and return
\* processed_count.  The locals of the call keep their last values until
\* main goes on (MainLoop).
SaveClose ==
    /\ pc = "save"
    /\ j > Len(remaining_urls)
    /\ \E io_ok \in BOOLEAN :
        IF io_ok
        THEN /\ urls_file' = [urls_file EXCEPT !.lines = @ \o wbuf]
             /\ wbuf' = <<>>
             /\ processed' = processed_count
             /\ printed' = Append(printed, KeyReport(json_files[key_index],
                                                     processed_count, Len(remaining_urls)))
             /\ pc' = "returned"
             /\ UNCHANGED <<json_files, key_index, total_processed, pass_locals, j, err,
                            exit_status>>
        ELSE /\ Raise("persist")
             /\ UNCHANGED <<urls_file, printed>>
    /\ UNCHANGED <<result_txt, bad_urls_log, config, timing, passes, log>>

\* ------------------------------------------------------------------ interruption
\* The process is killed from outside; only the files survive.
Running == pc \notin {"done", "crashed", "killed"}

Interrupt ==
    /\ Running
    /\ pc' = "killed"
    /\ err' = "interrupted"
    /\ exit_status' = exit_code("signal")
    /\ LocalsLost
    /\ UNCHANGED <<durable, config, timing, printed, passes, log>>

Next ==
    \/ MainStart
    \/ KeyStart
    \/ LoopSkip
    \/ Submit
    \/ HandleOk
    \/ HandleFatal
    \/ HandleBad
    \/ SaveOpen
    \/ SaveWrite
    \/ SaveClose
    \/ MainLoop
    \/ Interrupt

Spec == Init /\ [][Next]_vars

\* ------------------------------------------------------------------ properties
\* The URLs a queue line can hold.
URLs == {strip(l) : l \in Lines} \ {""}

\* Number of times x occurs in the sequence s.
Count(s, x) == Cardinality({k \in 1..Len(s) : s[k] = x})

\* The URLs of a sequence of records with a url field.
UrlsOf(s) == [k \in 1..Len(s) |-> s[k].url]

\* The attempts of the history whose kind is in kinds, in order.
AttemptsOfKind(kinds) ==
    LET Is(e) == e.kind \in kinds IN SelectSeq(log, Is)

\* The attempts of the history made with the given key, in order.
AttemptsOfKey(key) ==
    LET Is(e) == e.key = key IN SelectSeq(log, Is)

\* The queue as the next load_urls would return it.
QueueNow == load_urls(urls_file)

\* C1: conservation.  When main() has reached its end, the number of URLs
\* in the queue at the start equals the number of result.txt entries written
\* plus the number of bad-URL entries written plus the number of URLs in
\* the queue file at the end.
C1_Conservation ==
    pc = "done" =>
        Len(queue0) = Len(result_txt) + Len(bad_urls_log) + Len(QueueNow)

\* A finished run with a success, a rejection and a URL left in the queue.
C1_Witness ==
    /\ pc = "done"
    /\ Len(result_txt) >= 1
    /\ Len(bad_urls_log) >= 1
    /\ Len(QueueNow) >= 1

\* C2: crash consistency.  Wherever the run is interrupted, every URL of
\* the initial queue is in exactly one of the queue file, result.txt and
\* the bad-URL log (counted per occurrence): none is in two, none is lost.
C2_CrashConsistent ==
    pc = "killed" =>
        \A u \in URLs :
            Count(QueueNow, u) + Count(result_txt, u) + Count(UrlsOf(bad_urls_log), u)
                = Count(queue0, u)

\* C3: exhaustion failover.  In a pass whose key is exhausted, the attempt
\* that returned CredentialExhausted is the last attempt made with that
\* key, no earlier attempt of the key was exhausted, the URLs kept so far
\* are that URL and the ones after it in the loaded queue, in order, and
\* when the pass has returned the queue file holds exactly those lines.
C3_ExhaustionFailover ==
    (pc \in {"loop", "save", "returned"} /\ quota_exhausted) =>
        LET mine == AttemptsOfKey(json_files[key_index])
            k == Len(mine)
        IN  /\ k >= 1
            /\ k <= Len(urls)
            /\ log[Len(log)] = mine[k]
            /\ mine[k].kind = "CredentialExhausted"
            /\ mine[k].url = urls[k]
            /\ \A n \in 1..(k - 1) : mine[n].kind # "CredentialExhausted"
            /\ remaining_urls = SubSeq(urls, k, i - 1)
            /\ pc = "returned" =>
                  /\ urls_file.exists
                  /\ urls_file.lines = SubSeq(urls, k, Len(urls))
                  /\ QueueNow = SubSeq(urls, k, Len(urls))

\* A pass has returned after its key was exhausted on the second URL of
\* three: two URLs were written back.
C3_Witness ==
    /\ pc = "returned"
    /\ quota_exhausted
    /\ Len(urls) = 3
    /\ Len(AttemptsOfKey(json_files[key_index])) = 2
    /\ urls_file.lines = SubSeq(urls, 2, 3)

\* s without the first occurrence of x.
RECURSIVE RemoveFirst(_, _)
RemoveFirst(s, x) ==
    IF s = <<>> THEN <<>>
    ELSE IF Head(s) = x THEN Tail(s)
    ELSE <<Head(s)>> \o RemoveFirst(Tail(s), x)

\* s without one occurrence (the first left) of every element of xs.
RECURSIVE RemoveEach(_, _)
RemoveEach(s, xs) ==
    IF xs = <<>> THEN s ELSE RemoveEach(RemoveFirst(s, Head(xs)), Tail(xs))

Distinct(s) == \A a, b \in 1..Len(s) : a # b => s[a] # s[b]

\* The outcome kinds that settle a queue entry in the code.
FinalKinds == {"Success", "UrlRejected", "TransientError"}

\* Number of attempts before the n-th that settled their queue entry.
SettledBefore(n) ==
    Cardinality({m \in 1..(n - 1) : log[m].kind \in FinalKinds})

\* Every attempt submits the entry of the initial queue that follows the
\* entries settled so far: the run walks the queue once, front to back.
AttemptsFollowQueue ==
    \A n \in 1..Len(log) :
        /\ SettledBefore(n) < Len(queue0)
        /\ log[n].url = queue0[SettledBefore(n) + 1]

\* C4 as stated: after a completed run the queue file holds the initial
\* queue without the entries classified Success or UrlRejected, in order.
C4_ResidualOriginal ==
    pc = "done" =>
        QueueNow = RemoveEach(queue0, UrlsOf(AttemptsOfKind({"Success", "UrlRejected"})))

\* C4 (amended): after a completed run the queue file holds the initial
\* queue without the entries classified Success, UrlRejected or
\* TransientError (undecodable response), as a subsequence in the original
\* order: nothing added, nothing reordered.
C4_Residual ==
    pc = "done" =>
        QueueNow = RemoveEach(queue0, UrlsOf(AttemptsOfKind(FinalKinds)))

\* A finished run in which an undecodable response and an exhausted key
\* both occurred and part of the queue is left.
C4_Witness ==
    /\ pc = "done"
    /\ AttemptsOfKind({"TransientError"}) # <<>>
    /\ AttemptsOfKind({"CredentialExhausted"}) # <<>>
    /\ QueueNow # <<>>
    /\ Len(QueueNow) < Len(queue0)

\* No URL is in both ledgers, and the queue file written by a pass holds
\* no URL twice.
NoDuplication ==
    /\ \A u \in URLs : ~(Count(result_txt, u) > 0 /\ Count(UrlsOf(bad_urls_log), u) > 0)
    /\ pc = "returned" => Distinct(QueueNow)

\* C5 as stated: no duplication, for every run.
C5_NoDuplicationOriginal == NoDuplication

\* C5 (amended): no duplication, for every run whose initial queue holds no
\* URL twice.
C5_NoDuplication == Distinct(queue0) => NoDuplication

\* A pass over a queue of two different URLs has returned: one URL is in a
\* ledger, the other was written back.
C5_Witness ==
    /\ pc = "returned"
    /\ Distinct(queue0)
    /\ Len(queue0) = 2
    /\ Len(result_txt) + Len(bad_urls_log) = 1
    /\ urls # <<>>
    /\ Len(QueueNow) = 1

\* C6: atomic queue replace.  At every point of save_urls the queue file
\* holds the complete queue as it was loaded or the complete new residual
\* queue, so that a crash at that point leaves one of the two.
C6_AtomicReplace ==
    pc = "save" => (QueueNow = urls \/ QueueNow = remaining_urls)

\* C7: no failure of a single submission ends the run; a run that ends
\* without an error has an empty queue or has used its last key.
C7_SubmissionFailureNeverAborts ==
    /\ ~(pc = "crashed" /\ err \in {"transport_error", "bad_utf8"})
    /\ (pc = "done" /\ err = "none") =>
            (QueueNow = <<>> \/ key_index = Len(json_files))

\* The entries of s at the positions in P, in the order of s.
AtPositions(s, P) ==
    LET pick[n \in 0..Len(s)] ==
            IF n = 0 THEN <<>>
            ELSE IF n \in P THEN Append(pick[n - 1], s[n])
            ELSE pick[n - 1]
    IN  pick[Len(s)]

\* C8: failover retry.  The attempt after a CredentialExhausted one is made
\* with the next key file in path order and submits the same URL, and every
\* attempt submits the queue entry after the ones settled so far.  When the
\* run finishes with a last pass in which every attempt succeeded, the queue
\* file is empty, every entry of the initial queue is settled, and
\* result.txt lists the entries of the initial queue that were not sent to
\* the bad-URL log, each once, in the original order (the whole initial
\* queue when nothing was rejected).
C8_FailoverRetry ==
    /\ AttemptsFollowQueue
    /\ \A n \in 1..(Len(log) - 1) :
          log[n].kind = "CredentialExhausted" =>
              /\ log[n + 1].url = log[n].url
              /\ log[n + 1].key > log[n].key
              /\ \A p \in key_dir.files :
                    (log[n].key < p /\ p < log[n + 1].key) => Ext(p) = ".txt"
    /\ (/\ pc = "done"
        /\ AttemptsOfKind({"CredentialExhausted"}) # <<>>
        /\ \A e \in {log[n] : n \in 1..Len(log)} :
              e.key = log[Len(log)].key => e.kind = "Success")
       => LET settled == AttemptsOfKind(FinalKinds) IN
          /\ QueueNow = <<>>
          /\ Len(settled) = Len(queue0)
          /\ result_txt = AtPositions(queue0,
                    {p \in 1..Len(queue0) : settled[p].kind = "Success"})
          /\ bad_urls_log = <<>> => result_txt = queue0

\* Scenario B: three queue entries, the first key succeeds on the first and
\* is exhausted on the second, the second key succeeds on the second and
\* third; the run is done, the queue empty, result.txt lists all three.
C8_Witness ==
    /\ pc = "done"
    /\ Len(queue0) = 3
    /\ Len(log) = 4
    /\ log[1].kind = "Success"
    /\ log[2].kind = "CredentialExhausted"
    /\ log[3].key # log[2].key
    /\ log[3].kind = "Success"
    /\ log[4].kind = "Success"
    /\ result_txt = queue0
    /\ QueueNow = <<>>

\* The URLs not settled yet, as the code holds them at this point.
Pending ==
    IF pc = "loop" THEN remaining_urls \o SubSeq(urls, i, Len(urls))
    ELSE IF pc = "save" THEN remaining_urls
    ELSE QueueNow

\* C9: UrlRejected is permanent.  Whenever no attempt is in flight: the
\* bad-URL log has exactly one entry per rejected attempt, with its URL,
\* code and status, in order; result.txt has exactly the successful
\* attempts, so none for a rejection; the settled entries and the pending
\* ones add up to the initial queue, and attempts never go back in the
\* queue.  For a URL that is in the initial queue once this gives: one
\* bad-URL entry, no result.txt entry, no later attempt under any key, and
\* no place in the queue file a pass writes.
C9_RejectedIsPermanent ==
    (pc \in {"key", "loop", "save", "returned", "done"}) =>
        LET bad == AttemptsOfKind({"UrlRejected", "TransientError"}) IN
        /\ bad_urls_log = [k \in 1..Len(bad) |->
                [url |-> bad[k].url, code |-> bad[k].code, status |-> bad[k].status]]
        /\ result_txt = UrlsOf(AttemptsOfKind({"Success"}))
        /\ AttemptsFollowQueue
        /\ \A u \in URLs :
              Count(UrlsOf(AttemptsOfKind(FinalKinds)), u) + Count(Pending, u)
                  = Count(queue0, u)
        /\ \A n \in 1..Len(log) :
              (log[n].kind = "UrlRejected" /\ Count(queue0, log[n].url) = 1) =>
                  /\ Count(UrlsOf(bad_urls_log), log[n].url) = 1
                  /\ Count(result_txt, log[n].url) = 0
                  /\ \A m \in (n + 1)..Len(log) : log[m].url # log[n].url
                  /\ pc \in {"key", "returned", "done"} => Count(QueueNow, log[n].url) = 0

\* A URL was rejected with 403 / PERMISSION_DENIED under one key and the
\* run went on to a later key and finished.
C9_Witness ==
    /\ pc = "done"
    /\ \E n \in 1..Len(log) :
          /\ log[n].kind = "UrlRejected"
          /\ log[n].code = "403"
          /\ log[n].status = "PERMISSION_DENIED"
          /\ Count(queue0, log[n].url) = 1
          /\ log[Len(log)].key > log[n].key

\* The directory is missing or holds no key file.
NoKeys ==
    ~key_dir.exists \/ \A p \in key_dir.files : Ext(p) = ".txt"

\* C10: configuration error leaves state untouched.  With the directory
\* missing or without a key file, the step main takes ends the run with a
\* zero count, no submission, and the queue file and both ledgers as they
\* were.
C10_ConfigErrorFrame ==
    [][(pc = "main" /\ NoKeys /\ pc' # "killed") =>
            /\ pc' = "done"
            /\ err' = "config"
            /\ total_processed' = 0
            /\ log' = <<>>
            /\ urls_file' = urls_file
            /\ result_txt' = result_txt
            /\ bad_urls_log' = bad_urls_log]_vars

\* The directory exists and holds only a file that is no key, the queue is
\* not empty, and the run has ended with a configuration error.
C10_Witness ==
    /\ pc = "done"
    /\ err = "config"
    /\ key_dir.exists
    /\ key_dir.files = {0}
    /\ queue0 # <<>>

\* ------------------------------------------------------------------ C11
\* C11: a configuration error (key directory missing, or no key file in it)
\* ends the process with a non-zero exit status, which tells it from a
\* run that succeeded.
C11_ConfigErrorExitsNonZero ==
    (pc = "done" /\ err = "config") => exit_status # exit_code("return")

\* ------------------------------------------------------------------ C12
\* Every submission attempt so far was classified Success.
AllSuccess == \A n \in 1..Len(log) : log[n].kind = "Success"

\* What a run leaves behind when every URL of the queue is submitted with
\* success by the first key: a function of the initial queue and the pool.
AllSubmitted ==
    /\ result_txt = queue0
    /\ bad_urls_log = <<>>
    /\ QueueNow = <<>>
    /\ queue0 # <<>> => urls_file = [exists |-> TRUE, lines |-> <<>>]
    /\ log = [n \in 1..Len(queue0) |->
                [key |-> json_files[1], url |-> queue0[n], kind |-> "Success",
                 code |-> "None", status |-> "None"]]
    /\ total_processed = Len(queue0)
    /\ printed = IF queue0 = <<>> THEN <<TotalReport(0)>>
                 ELSE <<KeyReport(json_files[1], Len(queue0), 0),
                        TotalReport(Len(queue0))>>

\* C12: with DRY_RUN every submission is classified Success and no request
\* is made; and a finished dry run leaves the queue file, both ledgers and
\* the counts exactly as a finished real run whose submissions all succeed
\* (both leave AllSubmitted, which depends on the queue and the pool only).
C12_DryRunEquivalence ==
    /\ DRY_RUN => (requests = 0 /\ AllSuccess)
    /\ ~DRY_RUN => requests = Len(log)
    /\ (pc = "done" /\ err = "none" /\ DRY_RUN) => AllSubmitted
    /\ (pc = "done" /\ err = "none" /\ ~DRY_RUN /\ AllSuccess) => AllSubmitted

\* A finished dry run over a queue of two URLs with two keys in the pool.
C12_Witness ==
    /\ DRY_RUN
    /\ pc = "done"
    /\ err = "none"
    /\ Len(queue0) = 2
    /\ Len(json_files) = 2
    /\ Len(log) = 2

\* ------------------------------------------------------------------ C13
\* save_urls and load_urls on their own: save_urls(URLS_FILE, s) is called
\* with any sequence s of strings (kept in remaining_urls, as at line 206)
\* on any file, and load_urls reads the file back; or load_urls reads a
\* file as it is found.
SavedSequences == UNION {[1..n -> Lines] : n \in 0..MaxLines}

RoundTripInit ==
    /\ key_dir = [exists |-> TRUE, files |-> {1}]
    /\ urls_file \in QueueFiles
    /\ result_txt = <<>>
    /\ bad_urls_log = <<>>
    /\ DRY_RUN = FALSE
    /\ pc \in {"loop", "load"}
    /\ json_files = <<1>>
    /\ key_index = 1
    /\ processed = 0
    /\ total_processed = 0
    /\ urls = <<>>
    /\ i = 1
    /\ remaining_urls \in (IF pc = "loop" THEN SavedSequences ELSE {<<>>})
    /\ processed_count = 0
    /\ quota_exhausted = FALSE
    /\ result = NoResult
    /\ wbuf = <<>>
    /\ j = 0
    /\ err = "none"
    /\ response = NoResponse
    /\ exit_status = "running"
    /\ queue0 = <<>>
    /\ log = <<>>
    /\ clock = 0
    /\ starts = <<>>
    /\ requests = 0
    /\ printed = <<>>
    /\ passes = <<>>

\* load_urls(URLS_FILE) right after save_urls returned (line 242 after 206).
LoadAfterSave ==
    /\ pc = "returned"
    /\ urls' = load_urls(urls_file)
    /\ pc' = "loaded"
    /\ UNCHANGED <<durable, config, timing, printed, passes, main_locals, i,
                   remaining_urls, processed_count, quota_exhausted, result, response,
                   save_locals, err, exit_status, log>>

\* load_urls(URLS_FILE) on the file as it is found (line 172).
LoadOnly ==
    /\ pc = "load"
    /\ urls' = load_urls(urls_file)
    /\ pc' = "loaded_only"
    /\ UNCHANGED <<durable, config, timing, printed, passes, main_locals, i,
                   remaining_urls, processed_count, quota_exhausted, result, response,
                   save_locals, err, exit_status, log>>

RoundTripNext ==
    \/ SaveOpen
    \/ SaveWrite
    \/ SaveClose
    \/ LoadAfterSave
    \/ LoadOnly

RoundTrip == RoundTripInit /\ [][RoundTripNext]_vars

C14_RateRespected ==
    /\ Len(starts) = Len(log)
    /\ \A n \in 1..(Len(starts) - 1) : starts[n + 1] - starts[n] >= RequestDelay
    /\ \A n \in 1..Len(starts) : starts[n] - starts[1] >= (n - 1) * RequestDelay
    /\ \A n \in 1..Len(starts) : clock >= starts[n]

\* Three attempts: an undecodable response, then the key is exhausted, then
\* the next key submits.
C14_Witness ==
    /\ Len(log) = 3
    /\ log[1].kind = "TransientError"
    /\ log[2].kind = "CredentialExhausted"
    /\ log[3].key # log[2].key
    /\ log[3].kind = "Success"
    /\ starts[3] - starts[1] = 2 * RequestDelay

\* ------------------------------------------------------------------ C15
\* The counts printed per key, added up.
RECURSIVE SumOfKeyReports(_)
SumOfKeyReports(s) ==
    IF s = <<>> THEN 0
    ELSE (IF Head(s).what = "key" THEN Head(s).count ELSE 0) + SumOfKeyReports(Tail(s))

\* C15: at the end of a run the total that is printed equals the sum of the
\* counts printed per key and the number of lines appended to result.txt,
\* and every key's count is the number of its successful submissions; with
\* one key and every submission successful the queue is left empty and the
\* total and the number of result lines equal the initial queue length.
C15_CountersMatchLedger ==
    (pc = "done" /\ err = "none") =>
        /\ printed # <<>>
        /\ printed[Len(printed)] = TotalReport(total_processed)
        /\ \A n \in 1..(Len(printed) - 1) :
              /\ printed[n].what = "key"
              /\ printed[n].count =
                    Len(SelectSeq(log, LAMBDA a : a.key = printed[n].key /\ a.kind = "Success"))
        /\ total_processed = SumOfKeyReports(printed)
        /\ total_processed = Len(result_txt)
        /\ total_processed = Len(AttemptsOfKind({"Success"}))
        /\ (Len(json_files) = 1 /\ AllSuccess) =>
              /\ QueueNow = <<>>
              /\ total_processed = Len(queue0)
              /\ Len(result_txt) = Len(queue0)

\* Two keys, each with one successful submission before it is exhausted.
C15_Witness ==
    /\ pc = "done"
    /\ err = "none"
    /\ Len(printed) = 3
    /\ printed[1].count = 1
    /\ printed[2].count = 1
    /\ total_processed = 2
    /\ Len(QueueNow) = 1

\* ------------------------------------------------------------------ C16
\* The classification of the responses for which index_url returns.
C16_ReturnedClassified ==
    (pc = "handle" /\ ~DRY_RUN) =>
        /\ response.t \in {"error", "ok", "bad_json"}
        /\ Kind(result) = "CredentialExhausted" <=>
              /\ response.t = "error"
              /\ response.code = "429" \/ response.status = "RESOURCE_EXHAUSTED"
        /\ (response.t = "error" /\ Kind(result) # "CredentialExhausted") =>
              /\ Kind(result) = "UrlRejected"
              /\ result.code = response.code
              /\ result.status = response.status
        /\ response.t = "ok" => Kind(result) = "Success"
        /\ response.t = "bad_json" =>
              /\ ~result.ok
              /\ ~result.fatal_for_key
              /\ result.status = "INVALID_JSON"

\* C16: index_url classifies every response: CredentialExhausted exactly
\* for an error object with code 429 or status RESOURCE_EXHAUSTED, UrlRejected
\* with its code and status for any other error object, Success without an
\* error object, and a non-ok, non-fatal INVALID_JSON result for a body that
\* cannot be decoded (so index_url returns for such a body, it does not
\* raise).
C16_Classification ==
    /\ C16_ReturnedClassified
    /\ \A n \in 1..Len(log) : log[n].kind = "Raised" => err # "bad_utf8"

\* ------------------------------------------------------------------ C17
\* The key files of the directory in the order of their paths.
SortedKeys ==
    LET keys == {p \in key_dir.files : Ext(p) \in {".json", ".JSON"}}
    IN  CHOOSE s \in [1..Cardinality(keys) -> keys] :
            \A a, b \in 1..Cardinality(keys) : a < b => s[a] < s[b]

\* The queue file is empty and no pass is under way.
QueueEmptied == pc \in {"main", "key", "returned"} /\ QueueNow = <<>>

\* Keys are taken in the order of their paths, none skipped, none twice; the
\* attempts of a key are made in its pass; only the first pass can start on
\* an empty queue.
PoolOrder ==
    /\ Len(passes) <= Len(SortedKeys)
    /\ passes = SubSeq(SortedKeys, 1, Len(passes))
    /\ \A n \in 1..Len(log) : \E k \in 1..Len(passes) : log[n].key = passes[k]
    /\ \A m, n \in 1..Len(log) : m < n => log[m].key <= log[n].key
    /\ (pc = "key" /\ QueueNow = <<>>) => (key_index = 1 /\ log = <<>>)

\* With the queue file empty the run goes to the end of main (unless the
\* key file cannot be read or the process is killed): no submission, no
\* write to the queue file or the ledgers, no further key; and nothing
\* happens after the end.
EarlyExit ==
    /\ QueueEmptied =>
          /\ log' = log
          /\ durable' = durable
          /\ pc = "main" => pc' \in {"key", "done", "killed"}
          /\ pc = "key" => pc' \in {"returned", "crashed", "killed"}
          /\ pc = "returned" => pc' \in {"done", "killed"}
          /\ pc' = "crashed" => err' = "credential"
          /\ pc \in {"key", "returned"} => Len(passes') <= Len(passes) + 1
          /\ pc = "returned" => passes' = passes
    /\ pc = "done" => UNCHANGED vars

\* C17: once the queue file is empty, at the start of the run or after a
\* pass, the run goes to its end without any further submission or write
\* or key; the keys are taken in the order of their paths, each for at
\* most one pass.
C17_EarlyExit == [](PoolOrder) /\ [][EarlyExit]_vars

\* The first of two keys emptied the queue; the second was never used.
C17_Witness ==
    /\ pc = "done"
    /\ err = "none"
    /\ Len(json_files) = 2
    /\ passes = <<json_files[1]>>
    /\ Len(log) = 2
    /\ QueueNow = <<>>

\* ------------------------------------------------------------------ C18
\* The attempts of the pass of the current key, in order.
ThisPass == AttemptsOfKey(json_files[key_index])

\* The positions of urls whose attempt in this pass had one of the kinds.
PositionsOfKind(kinds) == {p \in 1..Len(ThisPass) : ThisPass[p].kind \in kinds}

\* The positions of urls that this pass did not submit.
NotSubmitted == {p \in 1..Len(urls) : p > Len(ThisPass)}

\* The claim as it is written: at the end of a pass a URL whose response
\* could not be decoded is still in the queue file, at its place.
C18_TransientKeptOriginal ==
    (pc = "returned" /\ urls # <<>>) =>
        QueueNow = AtPositions(urls, PositionsOfKind({"TransientError", "CredentialExhausted"})
                                      \cup NotSubmitted)

\* C18 (amended): a URL whose response body is no JSON is submitted once in
\* the pass and then leaves the queue like a rejected URL: it has a line
\* with status INVALID_JSON in the bad-URL log, and the queue file written
\* at the end of the pass holds exactly the entries from the exhaustion of
\* the key on, in their order, and so not this one.
C18_TransientDropped ==
    (pc = "returned" /\ urls # <<>>) =>
        /\ Len(ThisPass) <= Len(urls)
        /\ \A p \in 1..Len(ThisPass) : ThisPass[p].url = urls[p]
        /\ QueueNow = AtPositions(urls, PositionsOfKind({"CredentialExhausted"})
                                        \cup NotSubmitted)
        /\ \A p \in PositionsOfKind({"TransientError"}) :
              \E b \in 1..Len(bad_urls_log) :
                  bad_urls_log[b] = [url |-> urls[p], code |-> "None",
                                     status |-> "INVALID_JSON"]
        /\ Len(SelectSeq(bad_urls_log, LAMBDA b : b.status = "INVALID_JSON"))
              = Len(AttemptsOfKind({"TransientError"}))

\* A pass over three entries: no JSON for the first, the key exhausted at
\* the second; the queue file holds the second and the third.
C18_Witness ==
    /\ pc = "returned"
    /\ Len(urls) = 3
    /\ Len(ThisPass) = 2
    /\ ThisPass[1].kind = "TransientError"
    /\ ThisPass[2].kind = "CredentialExhausted"
    /\ QueueNow = <<urls[2], urls[3]>>
    /\ urls[1] = urls[3]

\* ------------------------------------------------------------------ C19
\* The run ended because a write to the queue file or a ledger failed.
PersistenceFailed == err = "persist"

\* After a failed write the run is over in an error state, and the counts
\* of the pass in which the write failed and the total were not printed
\* (the counts printed before belong to the passes that were completed).
FailedRunReportsNothing ==
    PersistenceFailed =>
        /\ pc = "crashed"
        /\ exit_status = exit_code("exception")
        /\ passes # <<>>
        /\ \A n \in 1..Len(printed) :
              /\ printed[n].what = "key"
              /\ printed[n].key # passes[Len(passes)]
        /\ Len(printed) = Len(passes) - 1

\* The step in which a write fails submits nothing and prints nothing, and
\* no step follows it.
FailureIsFatal ==
    /\ (PersistenceFailed' /\ ~PersistenceFailed) =>
          /\ pc \in {"handle", "loop", "save"}
          /\ log' = log
          /\ printed' = printed
          /\ requests' = requests
    /\ PersistenceFailed => UNCHANGED vars

\* C19: a write to the queue file, result.txt or the bad-URL log that fails
\* at any point of a pass stops the run in an error state; no submission
\* follows, and neither the count of that pass nor the total is printed.
C19_PersistenceFailureFatal == [](FailedRunReportsNothing) /\ [][FailureIsFatal]_vars

\* The second key submitted one URL with success, then a write failed; the
\* first key had printed its count before.
C19_Witness ==
    /\ PersistenceFailed
    /\ Len(passes) = 2
    /\ Len(printed) = 1
    /\ Len(log) >= 3
    /\ log[Len(log)].key = passes[2]
    /\ log[Len(log)].kind = "Success"
    /\ Len(result_txt) = 2

\* ------------------------------------------------------------------ C20
\* At most one pass per key and at most one submission per queue entry and
\* pass; a run that ends in main with URLs left has used every key, and
\* every pass ended on an exhausted key.
BoundedWork ==
    /\ Len(passes) <= Len(SortedKeys)
    /\ \A a, b \in 1..Len(passes) : a # b => passes[a] # passes[b]
    /\ \A k \in 1..Len(passes) : Len(AttemptsOfKey(passes[k])) <= Len(queue0)
    /\ pc \in {"loop", "handle", "save", "returned"} =>
          /\ Len(ThisPass) <= Len(urls)
          /\ \A p \in 1..Len(ThisPass) : ThisPass[p].url = urls[p]
    /\ Len(log) <= Len(passes) * Len(queue0)
    /\ (pc = "done" /\ QueueNow # <<>>) =>
          /\ passes = SortedKeys
          /\ \A k \in 1..Len(passes) :
                LET mine == AttemptsOfKey(passes[k])
                IN  mine # <<>> /\ mine[Len(mine)].kind = "CredentialExhausted"

\* C20: whatever the submissions give, the run comes to the end of main
\* (unless the process is killed, a key file cannot be read or a write
\* fails), after at most one pass per key and one submission per queue
\* entry and pass; and when it ends with URLs left in the queue file, every
\* key was used and every pass ended on an exhausted key.
C20_Termination ==
    /\ BoundedWork
    /\ (~Running /\ err \notin {"interrupted", "credential", "persist"}) => pc = "done"

====
